---------------------------- MODULE Spec2Model ----------------------------
(***************************************************************************)
(* Model of the pymeasure instrument drivers FlukePM6666, Agilent53132A    *)
(* and SunEC1: their transport traffic (write / read / ask), the           *)
(* completion-polling measurement, and the declared control properties.    *)
(*                                                                         *)
(* Numbers are decimal values [neg, dig, exp]: dig is the sequence of      *)
(* significant digits (no leading or trailing zero, empty for zero) and    *)
(* exp the decimal exponent of the first digit, so 0.005 is                *)
(* [neg |-> FALSE, dig |-> <<5>>, exp |-> -3].  Texts that are formatted   *)
(* or parsed are sequences of one-character strings.                       *)
(***************************************************************************)
EXTENDS Integers, Sequences, FiniteSets, TLC

(***************************************************************************)
(* Bounds of the model.                                                    *)
(***************************************************************************)
\* largest number of empty responses a simulated device gives before "1"
MaxEmpty == 2
\* the transport log of one call keeps at most this many operations
MaxLog == MaxEmpty + 9

(***************************************************************************)
(* Decimal values and characters.                                          *)
(***************************************************************************)
DigitChars == <<"0", "1", "2", "3", "4", "5", "6", "7", "8", "9">>

DigitChar(d) == DigitChars[d + 1]

IsDigit(c) == \E d \in 0..9 : DigitChars[d + 1] = c

CharDigit(c) == CHOOSE d \in 0..9 : DigitChars[d + 1] = c

Dec(n, d, x) == [neg |-> n, dig |-> d, exp |-> x]

Zero == Dec(FALSE, <<>>, 0)

RECURSIVE Join(_)
Join(cs) == IF cs = <<>> THEN "" ELSE Head(cs) \o Join(Tail(cs))

RECURSIVE Repeat(_, _)
Repeat(c, n) == IF n <= 0 THEN <<>> ELSE <<c>> \o Repeat(c, n - 1)

RECURSIVE StripTrailingZeros(_)
StripTrailingZeros(ds) ==
    IF ds # <<>> /\ ds[Len(ds)] = 0
    THEN StripTrailingZeros(SubSeq(ds, 1, Len(ds) - 1))
    ELSE ds

RECURSIVE StripLeadingZeros(_)
StripLeadingZeros(ds) ==
    IF ds # <<>> /\ ds[1] = 0 THEN StripLeadingZeros(Tail(ds)) ELSE ds

RECURSIVE NatDigits(_)
NatDigits(n) ==
    IF n < 10 THEN <<n>> ELSE Append(NatDigits(n \div 10), n % 10)

RECURSIVE DigitsNat(_)
DigitsNat(ds) ==
    IF ds = <<>> THEN 0
    ELSE 10 * DigitsNat(SubSeq(ds, 1, Len(ds) - 1)) + ds[Len(ds)]

DigitText(ds) == [i \in 1..Len(ds) |-> DigitChar(ds[i])]

\* a digit sequence plus one; carry is TRUE when every digit was 9
RECURSIVE Increment(_)
Increment(ds) ==
    IF ds = <<>> THEN [dig |-> <<>>, carry |-> TRUE]
    ELSE IF ds[Len(ds)] < 9
         THEN [dig |-> [ds EXCEPT ![Len(ds)] = @ + 1], carry |-> FALSE]
         ELSE LET r == Increment(SubSeq(ds, 1, Len(ds) - 1))
              IN  [dig |-> Append(r.dig, 0), carry |-> r.carry]

\* v rounded to p significant digits, ties to the even digit
RoundSig(v, p) ==
    IF Len(v.dig) <= p THEN v
    ELSE LET keep == SubSeq(v.dig, 1, p)
             rest == SubSeq(v.dig, p + 1, Len(v.dig))
             up   == \/ rest[1] > 5
                     \/ /\ rest[1] = 5
                        /\ \/ Len(rest) > 1
                           \/ keep[p] % 2 = 1
             inc  == Increment(keep)
         IN  IF ~up THEN Dec(v.neg, StripTrailingZeros(keep), v.exp)
             ELSE IF inc.carry THEN Dec(v.neg, <<1>>, v.exp + 1)
             ELSE Dec(v.neg, StripTrailingZeros(inc.dig), v.exp)


(***************************************************************************)
(* printf-style conversions used by the set-command templates.             *)
(***************************************************************************)
\* significant digits kept by the conversion %g
GPrecision == 6
\* fraction digits written by the conversion %f
FPrecision == 6

SignText(v) == IF v.neg THEN <<"-">> ELSE <<>>

\* the exponent field of %g's scientific style: sign and at least two digits
ExponentText(x) ==
    LET a == IF x < 0 THEN -x ELSE x
        d == NatDigits(a)
    IN  <<"e", IF x < 0 THEN "-" ELSE "+">>
            \o DigitText(IF Len(d) < 2 THEN <<0>> \o d ELSE d)

\* the digits of v in positional notation: integer part and fraction part
IntPart(v) ==
    IF v.exp < 0 THEN <<0>>
    ELSE [i \in 1..(v.exp + 1) |-> IF i <= Len(v.dig) THEN v.dig[i] ELSE 0]

FracPart(v) ==
    IF v.exp < 0 THEN Repeat(0, -v.exp - 1) \o v.dig
    ELSE IF Len(v.dig) > v.exp + 1
         THEN SubSeq(v.dig, v.exp + 2, Len(v.dig))
         ELSE <<>>

\* "%g" % v
FormatG(v) ==
    LET r == RoundSig(v, GPrecision)
    IN  IF r.dig = <<>> THEN <<"0">>
        ELSE IF r.exp < -4 \/ r.exp >= GPrecision
        THEN SignText(r) \o <<DigitChar(r.dig[1])>>
                 \o (IF Len(r.dig) > 1
                     THEN <<".">> \o DigitText(Tail(r.dig))
                     ELSE <<>>)
                 \o ExponentText(r.exp)
        ELSE SignText(r) \o DigitText(IntPart(r))
                 \o (IF FracPart(r) # <<>>
                     THEN <<".">> \o DigitText(FracPart(r))
                     ELSE <<>>)

\* v rounded to p digits after the decimal point, ties to the even digit
RoundFrac(v, p) ==
    IF v.dig = <<>> THEN v
    ELSE IF v.exp + p + 1 >= Len(v.dig) THEN v
    ELSE IF v.exp + p + 1 >= 1 THEN RoundSig(v, v.exp + p + 1)
    ELSE IF v.exp + p + 1 = 0 /\ (v.dig[1] > 5 \/ (v.dig[1] = 5 /\ Len(v.dig) > 1))
         THEN Dec(v.neg, <<1>>, -p)
    ELSE Dec(v.neg, <<>>, 0)

\* "%f" % v
FormatF(v) ==
    LET r == RoundFrac(v, FPrecision)
        f == FracPart(r)
    IN  SignText(r) \o DigitText(IntPart(r)) \o <<".">>
            \o DigitText(f \o Repeat(0, FPrecision - Len(f)))

\* "%d" % n for an integer n
FormatD(n) ==
    IF n < 0 THEN <<"-">> \o DigitText(NatDigits(-n)) ELSE DigitText(NatDigits(n))

(***************************************************************************)
(* float(text): the decimal value of a response text, or Invalid.          *)
(***************************************************************************)
Invalid == [neg |-> FALSE, dig |-> <<>>, exp |-> -1]

\* index of the first occurrence of one of the characters cs in s, else 0
FindChar(s, cs) ==
    IF \E i \in 1..Len(s) : s[i] \in cs
    THEN CHOOSE i \in 1..Len(s) : s[i] \in cs /\ \A j \in 1..(i - 1) : s[j] \notin cs
    ELSE 0

AllDigits(s) == \A i \in 1..Len(s) : IsDigit(s[i])

CountLeadingZeros(ds) == Len(ds) - Len(StripLeadingZeros(ds))

ParseFloat(s) ==
    LET signed == s # <<>> /\ s[1] \in {"-", "+"}
        neg    == s # <<>> /\ s[1] = "-"
        body   == IF signed THEN Tail(s) ELSE s
        ePos   == FindChar(body, {"e", "E"})
        mant   == IF ePos = 0 THEN body ELSE SubSeq(body, 1, ePos - 1)
        expo   == IF ePos = 0 THEN <<>> ELSE SubSeq(body, ePos + 1, Len(body))
        eSign  == expo # <<>> /\ expo[1] \in {"-", "+"}
        eDig   == IF eSign THEN Tail(expo) ELSE expo
        dot    == FindChar(mant, {"."})
        ip     == IF dot = 0 THEN mant ELSE SubSeq(mant, 1, dot - 1)
        fp     == IF dot = 0 THEN <<>> ELSE SubSeq(mant, dot + 1, Len(mant))
        ok     == /\ AllDigits(ip) /\ AllDigits(fp) /\ Len(ip) + Len(fp) >= 1
                  /\ ePos # 0 => (eDig # <<>> /\ AllDigits(eDig))
        all    == [i \in 1..(Len(ip) + Len(fp)) |->
                     CharDigit(IF i <= Len(ip) THEN ip[i] ELSE fp[i - Len(ip)])]
        e10    == IF ePos = 0 THEN 0
                  ELSE LET n == DigitsNat([i \in 1..Len(eDig) |-> CharDigit(eDig[i])])
                       IN  IF expo[1] = "-" THEN -n ELSE n
        dig    == StripTrailingZeros(StripLeadingZeros(all))
    IN  IF ~ok THEN Invalid
        ELSE IF dig = <<>> THEN Zero
        ELSE Dec(neg, dig, Len(ip) - 1 - CountLeadingZeros(all) + e10)

IsNumber(v) == v # Invalid

(***************************************************************************)
(* Tables declared by the drivers.                                         *)
(***************************************************************************)
\* two keys given the same wire token
FUNCTIONS_shared == [FREQ |-> "FREQ", PER |-> "PER", TINT |-> "TIME", TOT |-> "TIME"]

FUNCTIONS == [FREQ |-> "FREQ", PER |-> "PER", TINT |-> "TIME", TOT |-> "TOTM"]

AMPLITUDE_UNITS == [Vpp |-> "VPP", Vrms |-> "VRMS", dBm |-> "DBM", default |-> "DEF"]

MODEs == <<"HEAT", "COOL">>

TEMP_RATE_INIT == 20

(***************************************************************************)
(* Property descriptors.  A set command is the template's fixed text and   *)
(* the conversion of its one placeholder, which ends the template.         *)
(***************************************************************************)
NoValues == [none |-> "none"]

\* the set command written with %f
amplitude_fixed == [get |-> "SOUR:VOLT?", head |-> "SOUR:VOLT ", conv |-> "f",
                    validator |-> "none", values |-> NoValues,
                    map_values |-> FALSE]

\* the set command of offset pasted into amplitude
amplitude_pasted == [get |-> "SOUR:VOLT?", head |-> "SOUR:VOLT:OFFS ",
                     conv |-> "g", validator |-> "none", values |-> NoValues,
                     map_values |-> FALSE]

amplitude == [get |-> "SOUR:VOLT?", head |-> "SOUR:VOLT ", conv |-> "g",
              validator |-> "none", values |-> NoValues, map_values |-> FALSE]

offset == [get |-> "SOUR:VOLT:OFFS?", head |-> "SOUR:VOLT:OFFS ", conv |-> "g",
           validator |-> "none", values |-> NoValues, map_values |-> FALSE]

\* declared like amplitude, without validator, values and map_values
amplitude_units_plain == [get |-> "SOUR:VOLT:UNIT?", head |-> "SOUR:VOLT:UNIT ",
                          conv |-> "s", validator |-> "none",
                          values |-> NoValues, map_values |-> FALSE]

\* map_values left at its default
amplitude_units_unmapped == [get |-> "SOUR:VOLT:UNIT?",
                             head |-> "SOUR:VOLT:UNIT ", conv |-> "s",
                             validator |-> "strict_discrete_set",
                             values |-> AMPLITUDE_UNITS, map_values |-> FALSE]

amplitude_units == [get |-> "SOUR:VOLT:UNIT?", head |-> "SOUR:VOLT:UNIT ",
                    conv |-> "s", validator |-> "strict_discrete_set",
                    values |-> AMPLITUDE_UNITS, map_values |-> TRUE]

(***************************************************************************)
(* The property mechanism of the Instrument base class.                    *)
(***************************************************************************)
\* strict_discrete_set(value, values): value when it is in values
strict_discrete_set(value, values) == value \in DOMAIN values

\* set_command % value: the text substituted for the placeholder
Convert(conv, value) ==
    CASE conv = "g" -> FormatG(value)
      [] conv = "f" -> FormatF(value)
      [] conv = "d" -> FormatD(value)
      [] OTHER      -> <<value>>

\* a command on the wire: the fixed text and the argument text
Msg(head, arg) == [head |-> head, arg |-> arg]

Text(msg) == msg.head \o Join(msg.arg)

\* the setter of Instrument.control: validate, map (a dictionary lookup),
\* format
ControlSet(desc, value) ==
    IF desc.validator = "strict_discrete_set"
       /\ ~strict_discrete_set(value, desc.values)
    THEN [error |-> "ValueError", msg |-> Msg("", <<>>)]
    ELSE IF desc.map_values /\ value \notin DOMAIN desc.values
    THEN [error |-> "KeyError", msg |-> Msg("", <<>>)]
    ELSE LET wire == IF desc.map_values THEN desc.values[value] ELSE value
         IN  [error |-> "none", msg |-> Msg(desc.head, Convert(desc.conv, wire))]

\* the key of values whose wire token is token (the getter's search)
ReverseLookup(values, token) ==
    IF \E k \in DOMAIN values : values[k] = token
    THEN CHOOSE k \in DOMAIN values : values[k] = token
    ELSE "KeyError"

\* the getter of Instrument.control applied to the response text: a
\* number when the text parses as a float, else the text itself, then
\* the reverse mapping (no wire token of a mapping equals a number)
ControlGet(desc, resp) ==
    LET num == ParseFloat(resp)
        key == ReverseLookup(desc.values, Join(resp))
    IN  IF ~desc.map_values
        THEN [error |-> "none",
              num |-> IF IsNumber(num) THEN num ELSE Invalid,
              str |-> IF IsNumber(num) THEN "" ELSE Join(resp)]
        ELSE IF IsNumber(num) \/ key = "KeyError"
        THEN [error |-> "KeyError", num |-> Invalid, str |-> ""]
        ELSE [error |-> "none", num |-> Invalid, str |-> key]

(***************************************************************************)
(* State.                                                                  *)
(***************************************************************************)
VARIABLES
    constructed,  \* the instruments whose constructor has run
    pc,           \* position of the caller: "idle" or a step of its call
    call,         \* the call in progress, or the last one made
    x,            \* measure / frequency: the local x
    log,          \* transport operations of that call, in order
    func,         \* FlukePM6666.func
    dev,          \* simulated Agilent device: text held per control
    script,       \* simulated device and transport during the call
    reads,        \* transport reads attempted by the call
    ret,          \* "none" while running, "returned", or the exception
    retNum,       \* the number returned
    retStr,       \* the string returned
    assigned,     \* per control, the value the device holds by assignment
    life,         \* per instrument, its lifecycle state outside a call
    wire,         \* transport in use: the callers whose query is unanswered
    other,        \* position of a second caller of the Agilent53132A
    serialized,   \* whether the two callers take turns, call by call
    iv            \* the IV sweep procedure

vars == <<constructed, pc, call, x, log, func, dev, script, reads, ret,
          retNum, retStr, assigned, life, wire, other, serialized, iv>>

Instruments == {"FlukePM6666", "Agilent53132A", "SunEC1"}

(***************************************************************************)
(* Transport: every write, read and ask of an instrument is one entry of   *)
(* the log.  An ask is entered when its command is written and completed,  *)
(* in place, by the response read.                                         *)
(***************************************************************************)
\* status: "sent" (a write: no response is read), "pending", "answered" or
\* "timeout"; resp: the response text once answered
Op(kind, text, status) ==
    [kind |-> kind, text |-> text, status |-> status, resp |-> <<>>]

Record(l, op) == IF Len(l) < MaxLog THEN Append(l, op) ELSE l

RECURSIVE Writes(_)
Writes(texts) ==
    IF texts = <<>> THEN <<>>
    ELSE <<Op("write", Head(texts), "sent")>> \o Writes(Tail(texts))

Answered(l, resp) ==
    [l EXCEPT ![Len(l)].status = "answered", ![Len(l)].resp = resp]

TimedOut(l) == [l EXCEPT ![Len(l)].status = "timeout"]

Response(resp) ==
    [kind |-> "read", text |-> "", status |-> "answered", resp |-> resp]

\* the simulated device of a polled measurement: it answers the
\* operation-complete query with the empty string script.empties times
\* (forever when script.silent) and then with "1"; the transport read
\* number script.timeoutAt of the call times out (0: none does; a call
\* answered after n empty strings makes n + 2 reads)
Scripts ==
    {s \in [silent : BOOLEAN, empties : 0..MaxEmpty,
            timeoutAt : 0..(MaxEmpty + 2)] :
        /\ s.silent => s.empties = 0
        /\ ~s.silent => s.timeoutAt <= s.empties + 2}

PropertyScripts ==
    {s \in Scripts : ~s.silent /\ s.empties = 0 /\ s.timeoutAt <= 1}

NoScript == [silent |-> FALSE, empties |-> 0, timeoutAt |-> 0]

\* what a read of the first caller finds when a second caller shares the
\* transport: the response to the other's query (Foreign), or nothing at
\* all, its own response having been read by the other (Robbed)
Foreign == wire # <<>> /\ Head(wire) = "other"

Robbed == wire = <<>>

TimesOut ==
    \/ Robbed
    \/ ~Foreign /\ script.timeoutAt # 0 /\ reads + 1 = script.timeoutAt

OpcResponse ==
    IF Foreign THEN dev.amplitude
    ELSE IF script.silent \/ reads < script.empties THEN <<>> ELSE <<"1">>

\* responses of the simulated device to a fetch query
FetchTexts ==
    { <<"9", ".", "9", "9", "E", "+", "0", "6">>, <<>> }

\* the simulated Agilent device echoes the text last written per control
DevInit == [amplitude       |-> <<"5", ".", "0", "0", "0">>,
            offset          |-> <<"0">>,
            amplitude_units |-> <<"VPP">>]

\* the set command and the query the device knows for each text it holds
DevSet == [amplitude       |-> "SOUR:VOLT ",
           offset          |-> "SOUR:VOLT:OFFS ",
           amplitude_units |-> "SOUR:VOLT:UNIT "]

DevGet == [amplitude       |-> "SOUR:VOLT?",
           offset          |-> "SOUR:VOLT:OFFS?",
           amplitude_units |-> "SOUR:VOLT:UNIT?"]

DeviceWrite(d, msg) ==
    [p \in DOMAIN d |-> IF DevSet[p] = msg.head THEN msg.arg ELSE d[p]]

DeviceAnswer(d, query) ==
    IF \E p \in DOMAIN d : DevGet[p] = query
    THEN d[CHOOSE p \in DOMAIN d : DevGet[p] = query]
    ELSE <<>>

NotAssigned == [amplitude |-> Invalid, offset |-> Invalid, amplitude_units |-> ""]

Controls == [amplitude       |-> amplitude,
             offset          |-> offset,
             amplitude_units |-> amplitude_units]

\* values a caller assigns to the controls
AmplitudeInputs ==
    { Dec(FALSE, <<5>>, 0), Dec(FALSE, <<1, 2>>, 1),
      Dec(FALSE, <<1, 2, 3, 4, 5, 6, 7>>, 6) }

OffsetInputs == { Dec(TRUE, <<5>>, -1) }

UnitInputs == {"Vpp", "dBm", "BOTH"}

Inputs(p) ==
    CASE p = "amplitude" -> AmplitudeInputs
      [] p = "offset"    -> OffsetInputs
      [] OTHER           -> UnitInputs

\* a unit token the driver does not declare
ForeignUnit == <<"VOLT">>

Begin(c, s) ==
    /\ pc = "idle"
    /\ call' = c
    /\ script' = s
    /\ reads' = 0
    /\ x' = "unset"

Started ==
    /\ ret' = "none"
    /\ retNum' = Invalid
    /\ retStr' = ""

Return(num, str) ==
    /\ pc' = "idle"
    /\ ret' = "returned"
    /\ retNum' = num
    /\ retStr' = str

Raise(e) ==
    /\ pc' = "idle"
    /\ ret' = e
    /\ retNum' = Invalid
    /\ retStr' = ""

Running == UNCHANGED <<ret, retNum, retStr>>

Attempt == reads' = IF reads < MaxLog THEN reads + 1 ELSE reads

\* a step of the first caller leaves the second caller and the procedure
\* alone; Quiet: it also asks nothing
Alone == UNCHANGED <<other, serialized, iv>>

Quiet == UNCHANGED <<wire, other, serialized, iv>>

\* the transport hands a reader the response the device sent first
Taken(w) == IF w = <<>> THEN w ELSE Tail(w)

\* a caller whose read failed gives its query up
GivenUp(w, c) == SelectSeq(w, LAMBDA o : o # c)

(***************************************************************************)
(* Lifecycle.  life[i] is Uninitialized before the constructor, Connected  *)
(* once the transport exists, Configured once reset() has run and Closed   *)
(* after teardown; an instrument is Measuring for the duration of a        *)
(* completion-polling call.                                                *)
(***************************************************************************)
IsClosed(i) == life[i] = "Closed"

IsOpen(i) == i \in constructed /\ ~IsClosed(i)

\* which instrument a completion-polling call belongs to
PollingCall == [FlukePM6666   |-> "FlukePM6666.measure",
                Agilent53132A |-> "Agilent53132A.frequency",
                SunEC1        |-> "none"]

Lifecycle(i) ==
    IF pc # "idle" /\ call = PollingCall[i] THEN "Measuring" ELSE life[i]

\* a transport operation of a closed instrument: it fails before anything
\* is sent, and the failure ends the call c that made it
ClosedCall(c) ==
    /\ Begin(c, NoScript)
    /\ Raise("InstrumentClosedError")
    /\ log' = <<>>

\* teardown: the caller releases the transport
Instrument_close(i) ==
    /\ IsOpen(i)
    /\ Begin(i \o ".close", NoScript)
    /\ life' = [life EXCEPT ![i] = "Closed"]
    /\ log' = <<>>
    /\ Return(Invalid, "")
    /\ UNCHANGED <<constructed, func, dev, assigned>>
    /\ Quiet

\* the procedure before execute() is entered
IvIdle ==
    [pc |-> "idle", i |-> 0, steps |-> 0, currents |-> <<>>, voltage |-> 0,
     out |-> <<>>, stop |-> FALSE]

DriverInit ==
    /\ constructed = {}
    /\ pc = "idle"
    /\ call = "none"
    /\ x = "unset"
    /\ log = <<>>
    /\ func = "unset"
    /\ dev = DevInit
    /\ script = NoScript
    /\ reads = 0
    /\ ret = "none"
    /\ retNum = Invalid
    /\ retStr = ""
    /\ assigned = NotAssigned
    /\ life = [i \in Instruments |-> "Uninitialized"]
    /\ wire = <<>>
    /\ other = "idle"
    /\ iv = IvIdle

\* one caller, or callers that take turns
Init == DriverInit /\ serialized = TRUE

(***************************************************************************)
(* Steps shared by the two completion-polling calls, whose code from the   *)
(* trigger onward is the same but for the fetch command.                   *)
(***************************************************************************)
\* the write half of ask(query)
AskWrite(c, at, query, next) ==
    /\ pc = at
    /\ call = c
    /\ log' = Record(log, Op("ask", query, "pending"))
    /\ pc' = next
    /\ UNCHANGED <<constructed, life, call, x, func, dev, script, reads, ret,
                   retNum, retStr, assigned>>
    /\ wire' = Append(wire, "main")
    /\ Alone

\* x = the response to '*OPC?' (the read half of the ask), then the
\* loop test
OpcAnswer(c, at, next) ==
    /\ pc = at
    /\ call = c
    /\ Attempt
    /\ IF TimesOut
       THEN /\ Raise("TimeoutError")
            /\ log' = TimedOut(log)
            /\ x' = x
       ELSE /\ x' = Join(OpcResponse)
            /\ log' = Answered(log, OpcResponse)
            /\ pc' = next
            /\ Running
    /\ UNCHANGED <<constructed, life, call, func, dev, script, assigned>>
    /\ wire' = IF TimesOut THEN GivenUp(wire, "main")
               ELSE IF OpcResponse = <<>> THEN wire ELSE Taken(wire)
    /\ Alone

\* x = self.read() in the loop body, then the loop test
PollRead(c, at, next) ==
    /\ pc = at
    /\ call = c
    /\ Attempt
    /\ IF TimesOut
       THEN /\ Raise("TimeoutError")
            /\ log' = Record(log, Op("read", "", "timeout"))
            /\ x' = x
       ELSE /\ x' = Join(OpcResponse)
            /\ log' = Record(log, Response(OpcResponse))
            /\ pc' = next
            /\ Running
    /\ UNCHANGED <<constructed, life, call, func, dev, script, assigned>>
    /\ wire' = IF TimesOut THEN GivenUp(wire, "main")
               ELSE IF OpcResponse = <<>> THEN wire ELSE Taken(wire)
    /\ Alone

\* return float(response to the fetch query)
FetchAnswer(c, at) ==
    /\ pc = at
    /\ call = c
    /\ Attempt
    /\ IF TimesOut
       THEN /\ Raise("TimeoutError")
            /\ log' = TimedOut(log)
       ELSE \E t \in (IF Foreign THEN {dev.amplitude} ELSE FetchTexts) :
              /\ log' = Answered(log, t)
              /\ IF IsNumber(ParseFloat(t))
                 THEN Return(ParseFloat(t), "")
                 ELSE Raise("ValueError")
    /\ UNCHANGED <<constructed, life, call, x, func, dev, script, assigned>>
    /\ wire' = IF TimesOut THEN GivenUp(wire, "main") ELSE Taken(wire)
    /\ Alone

(***************************************************************************)
(* FlukePM6666                                                             *)
(***************************************************************************)
\* an argument string as its whitespace-separated words
CmdText(words) ==
    IF words = <<>> THEN ""
    ELSE Join(<<words[1]>> \o
              [i \in 1..(2 * (Len(words) - 1)) |->
                  IF i % 2 = 1 THEN " " ELSE words[(i \div 2) + 1]])

FunctionInputs == { <<"PER">>, <<"TINT">>, <<"VOLT">>, <<>> }

\* the two writes of reset() in the other order
FlukePM6666_reset_writes_swapped == <<"EOI ON", "D">>

FlukePM6666_reset_writes == <<"D", "EOI ON">>

FlukePM6666_init ==
    /\ "FlukePM6666" \notin constructed
    /\ Begin("FlukePM6666.__init__", NoScript)
    /\ constructed' = constructed \cup {"FlukePM6666"}
    /\ life' = [life EXCEPT !["FlukePM6666"] = "Configured"]
    /\ log' = Writes(FlukePM6666_reset_writes)
    /\ func' = "FREQ"
    /\ Return(Invalid, "")
    /\ UNCHANGED <<dev, assigned>>
    /\ Quiet

FlukePM6666_reset ==
    /\ "FlukePM6666" \in constructed
    /\ IF IsClosed("FlukePM6666")
       THEN /\ ClosedCall("FlukePM6666.reset")
            /\ UNCHANGED <<func, life>>
       ELSE /\ Begin("FlukePM6666.reset", NoScript)
            /\ log' = Writes(FlukePM6666_reset_writes)
            /\ func' = "FREQ"
            /\ life' = [life EXCEPT !["FlukePM6666"] = "Configured"]
            /\ Return(Invalid, "")
    /\ UNCHANGED <<constructed, dev, assigned>>
    /\ Quiet

FlukePM6666_function(cmd) ==
    /\ "FlukePM6666" \in constructed
    /\ Begin("FlukePM6666.function", NoScript)
    /\ IF cmd = <<>>
       THEN Raise("IndexError") /\ log' = <<>> /\ func' = func
       ELSE IF cmd[1] \in DOMAIN FUNCTIONS
       THEN /\ func' = cmd[1]
            /\ IF IsClosed("FlukePM6666")
               THEN Raise("InstrumentClosedError") /\ log' = <<>>
               ELSE /\ log' = Writes(<<"FUNC '" \o CmdText(cmd) \o "'">>)
                    /\ Return(Invalid, "")
       ELSE Return(Invalid, "") /\ log' = <<>> /\ func' = func
    /\ UNCHANGED <<constructed, life, dev, assigned>>
    /\ Quiet

\* gate() and input() split their argument into words; a word is the
\* sequence of its characters
GateInputs ==
    { << <<"T", "I", "M", "E">>, <<"0", ".", "1">> >>,
      << <<"D", "I", "G", "I", "T", "S">>, <<"8">> >>,
      << <<"T", "I", "M", "E">>, <<"1", "s">> >>,
      << <<"T", "I", "M", "E">> >>,
      << <<"F", "R", "E", "Q">>, <<"1">> >>,
      << >> }

InputInputs ==
    { << <<"A", "T", "T">>, <<"1", "0">> >>,
      << <<"A", "T", "T">>, <<"x">> >>,
      << <<"C", "O", "U", "P">>, <<"A", "C">> >>,
      << <<"I", "M", "P">>, <<"5", "0">> >>,
      << <<"I", "M", "P">> >>,
      << <<"G", "A", "I", "N">>, <<"2">> >>,
      << >> }

InputNumbers == {1, 2}

\* both branches of gate() arm with the same two writes
gate_arm_writes == <<":FREQ:ARM:STAR:SOUR IMM", ":FREQ:ARM:STOP:SOUR TIM">>

\* the two arming writes, then the write of the stop value as "%f" % float(f[1])
gate_branch(f, prefix) ==
    IF IsClosed("FlukePM6666")
    THEN Raise("InstrumentClosedError") /\ log' = <<>>
    ELSE IF Len(f) < 2
    THEN Raise("IndexError") /\ log' = Writes(gate_arm_writes)
    ELSE IF ~IsNumber(ParseFloat(f[2]))
    THEN Raise("ValueError") /\ log' = Writes(gate_arm_writes)
    ELSE /\ log' = Writes(gate_arm_writes
                          \o <<prefix \o Join(FormatF(ParseFloat(f[2])))>>)
         /\ Return(Invalid, "")

\* an unrecognised keyword answered with an error
FlukePM6666_gate_raising(cmd) ==
    /\ "FlukePM6666" \in constructed
    /\ Begin("FlukePM6666.gate", NoScript)
    /\ IF cmd = <<>>
       THEN Raise("IndexError") /\ log' = <<>>
       ELSE IF Join(cmd[1]) = "TIME"
       THEN gate_branch(cmd, ":FREQ:ARM:STOP:TIM  ")
       ELSE IF Join(cmd[1]) = "DIGITS"
       THEN gate_branch(cmd, ":FREQ:ARM:STOP:DIG  ")
       ELSE Raise("ValueError") /\ log' = <<>>
    /\ UNCHANGED <<constructed, life, func, dev, assigned>>
    /\ Quiet

FlukePM6666_gate(cmd) ==
    /\ "FlukePM6666" \in constructed
    /\ Begin("FlukePM6666.gate", NoScript)
    /\ IF cmd = <<>>
       THEN Raise("IndexError") /\ log' = <<>>
       ELSE IF Join(cmd[1]) = "TIME"
       THEN gate_branch(cmd, ":FREQ:ARM:STOP:TIM  ")
       ELSE IF Join(cmd[1]) = "DIGITS"
       THEN gate_branch(cmd, ":FREQ:ARM:STOP:DIG  ")
       ELSE Return(Invalid, "") /\ log' = <<>>
    /\ UNCHANGED <<constructed, life, func, dev, assigned>>
    /\ Quiet

\* int(text) of a word of decimal digits
IsInt(w) == w # <<>> /\ AllDigits(w)

ParseInt(w) == DigitsNat([i \in 1..Len(w) |-> CharDigit(w[i])])

\* one write, its argument converted before the write is issued
input_branch(f, ok, text) ==
    IF Len(f) < 2
    THEN Raise("IndexError") /\ log' = <<>>
    ELSE IF ~ok
    THEN Raise("ValueError") /\ log' = <<>>
    ELSE IF IsClosed("FlukePM6666")
    THEN Raise("InstrumentClosedError") /\ log' = <<>>
    ELSE log' = Writes(<<text>>) /\ Return(Invalid, "")

FlukePM6666_input(cmd, n) ==
    /\ "FlukePM6666" \in constructed
    /\ Begin("FlukePM6666.input", NoScript)
    /\ LET inp == ":INP" \o Join(FormatD(n))
       IN  IF cmd = <<>>
           THEN Raise("IndexError") /\ log' = <<>>
           ELSE IF Join(cmd[1]) = "ATT"
           THEN input_branch(cmd, Len(cmd) >= 2 /\ IsInt(cmd[2]),
                             inp \o ":ATT  " \o Join(FormatD(ParseInt(cmd[2]))))
           ELSE IF Join(cmd[1]) = "COUP"
           THEN input_branch(cmd, TRUE, inp \o ":COUP  " \o Join(cmd[2]))
           ELSE IF Join(cmd[1]) = "IMP"
           THEN input_branch(cmd, Len(cmd) >= 2 /\ IsNumber(ParseFloat(cmd[2])),
                             inp \o ":IMP  " \o Join(FormatF(ParseFloat(cmd[2]))))
           ELSE Return(Invalid, "") /\ log' = <<>>
    /\ UNCHANGED <<constructed, life, func, dev, assigned>>
    /\ Quiet

\* the loop test inverted
measure_while_inverted(v) == v # ""

\* the loop given up after two reads of the call
measure_while_bounded(v) == v = "" /\ reads < 2

\* while x == '':
measure_while(v) == v = ""

\* the fetch naming the SCPI function instead of the selected key
measure_fetch_command_mapped(f) == "FETC:" \o FUNCTIONS[f] \o "?"

\* 'FETC:%s?' % self.func
measure_fetch_command(f) == "FETC:" \o f \o "?"

\* the failure of the first write taken for a response and the call going on
FlukePM6666_measure_swallowing ==
    /\ "FlukePM6666" \in constructed
    /\ \E s \in Scripts : Begin("FlukePM6666.measure", s)
    /\ Started
    /\ log' = IF IsClosed("FlukePM6666") THEN <<>> ELSE Writes(<<"INIT">>)
    /\ pc' = "opc"
    /\ UNCHANGED <<constructed, life, func, dev, assigned>>
    /\ Quiet

FlukePM6666_measure ==
    /\ "FlukePM6666" \in constructed
    /\ IF IsClosed("FlukePM6666")
       THEN ClosedCall("FlukePM6666.measure")
       ELSE /\ \E s \in Scripts : Begin("FlukePM6666.measure", s)
            /\ Started
            /\ log' = Writes(<<"INIT">>)
            /\ pc' = "opc"
    /\ UNCHANGED <<constructed, life, func, dev, assigned>>
    /\ Quiet

FlukePM6666_measure_opc ==
    AskWrite("FlukePM6666.measure", "opc", "*OPC?", "opc_r")

FlukePM6666_measure_opc_read ==
    OpcAnswer("FlukePM6666.measure", "opc_r",
              IF measure_while(x') THEN "poll" ELSE "fetch")

\* the loop body asking again instead of reading
FlukePM6666_measure_read_asking ==
    /\ AskWrite("FlukePM6666.measure", "poll", "*OPC?", "opc_r")

\* the loop body swallowing a timeout and reading again
FlukePM6666_measure_read_retrying ==
    /\ pc = "poll"
    /\ call = "FlukePM6666.measure"
    /\ Attempt
    /\ IF TimesOut
       THEN /\ log' = Record(log, Op("read", "", "timeout"))
            /\ UNCHANGED <<x, pc>>
       ELSE /\ x' = Join(OpcResponse)
            /\ log' = Record(log, Response(OpcResponse))
            /\ pc' = IF measure_while(x') THEN "poll" ELSE "fetch"
    /\ UNCHANGED <<constructed, life, call, func, dev, script, assigned, ret,
                   retNum, retStr>>
    /\ wire' = IF TimesOut \/ OpcResponse = <<>> THEN wire ELSE Taken(wire)
    /\ Alone

FlukePM6666_measure_read ==
    PollRead("FlukePM6666.measure", "poll",
             IF measure_while(x') THEN "poll" ELSE "fetch")

FlukePM6666_measure_fetch ==
    AskWrite("FlukePM6666.measure", "fetch", measure_fetch_command(func),
             "fetch_r")

FlukePM6666_measure_return == FetchAnswer("FlukePM6666.measure", "fetch_r")

(***************************************************************************)
(* Agilent53132A                                                           *)
(***************************************************************************)
Channels == {1}

\* the default gate_time, 10e-3
GateTimes == { Dec(FALSE, <<1>>, -2) }

Agilent53132A_init ==
    /\ "Agilent53132A" \notin constructed
    /\ Begin("Agilent53132A.__init__", NoScript)
    /\ constructed' = constructed \cup {"Agilent53132A"}
    /\ life' = [life EXCEPT !["Agilent53132A"] = "Connected"]
    /\ log' = <<>>
    /\ Return(Invalid, "")
    /\ UNCHANGED <<func, dev, assigned>>
    /\ Quiet

Agilent53132A_reset_writes == <<"*RST", "*CLS", "*SRE 0", "*ESE 0", ":STAT:PRES">>

\* the simulated device returns to its defaults on *RST
Agilent53132A_reset ==
    /\ "Agilent53132A" \in constructed
    /\ IF IsClosed("Agilent53132A")
       THEN /\ ClosedCall("Agilent53132A.reset")
            /\ UNCHANGED <<dev, assigned, life>>
       ELSE /\ Begin("Agilent53132A.reset", NoScript)
            /\ log' = Writes(Agilent53132A_reset_writes)
            /\ dev' = DevInit
            /\ assigned' = NotAssigned
            /\ life' = [life EXCEPT !["Agilent53132A"] = "Configured"]
            /\ Return(Invalid, "")
    /\ UNCHANGED <<constructed, func>>
    /\ Quiet

frequency_setup_writes(ch, gate_time) ==
    << "FUNC 'FREQ " \o Join(FormatD(ch)) \o "'",
       ":FREQ:ARM:STAR:SOUR IMM",
       ":FREQ:ARM:STOP:SOUR TIM",
       ":FREQ:ARM:STOP:TIM  " \o Join(FormatF(gate_time)) >>

\* while x == '':
frequency_while(v) == v = ""

frequency_fetch_command == "FETC:FREQ?"

Agilent53132A_frequency(ch, gate_time) ==
    /\ "Agilent53132A" \in constructed
    /\ IF IsClosed("Agilent53132A")
       THEN ClosedCall("Agilent53132A.frequency")
       ELSE /\ \E s \in Scripts : Begin("Agilent53132A.frequency", s)
            /\ Started
            /\ log' = Writes(frequency_setup_writes(ch, gate_time)
                                 \o <<"INIT">>)
            /\ pc' = "opc"
    /\ UNCHANGED <<constructed, life, func, dev, assigned>>
    /\ Quiet

Agilent53132A_frequency_opc ==
    AskWrite("Agilent53132A.frequency", "opc", "*OPC?", "opc_r")

\* the fetch query written before the response to '*OPC?' is read
Agilent53132A_frequency_opc_read_pipelining ==
    AskWrite("Agilent53132A.frequency", "opc_r", frequency_fetch_command,
             "fetch_r")

Agilent53132A_frequency_opc_read ==
    OpcAnswer("Agilent53132A.frequency", "opc_r",
              IF frequency_while(x') THEN "poll" ELSE "fetch")

Agilent53132A_frequency_read ==
    PollRead("Agilent53132A.frequency", "poll",
             IF frequency_while(x') THEN "poll" ELSE "fetch")

Agilent53132A_frequency_fetch ==
    AskWrite("Agilent53132A.frequency", "fetch", frequency_fetch_command,
             "fetch_r")

Agilent53132A_frequency_return ==
    FetchAnswer("Agilent53132A.frequency", "fetch_r")

SetCall(p) == "Agilent53132A." \o p \o ".set"

GetCall(p) == "Agilent53132A." \o p \o ".get"

\* assignment to a control: validate, map, format, one write
control_set(p, v) ==
    /\ "Agilent53132A" \in constructed
    /\ Begin(SetCall(p), NoScript)
    /\ LET r == ControlSet(Controls[p], v)
       IN  IF r.error # "none"
           THEN /\ Raise(r.error)
                /\ log' = <<>>
                /\ UNCHANGED <<dev, assigned>>
           ELSE IF IsClosed("Agilent53132A")
           THEN /\ Raise("InstrumentClosedError")
                /\ log' = <<>>
                /\ UNCHANGED <<dev, assigned>>
           ELSE /\ log' = Writes(<<Text(r.msg)>>)
                /\ dev' = DeviceWrite(dev, r.msg)
                /\ assigned' = [assigned EXCEPT ![p] = v]
                /\ Return(Invalid, "")
    /\ UNCHANGED <<constructed, life, func>>
    /\ Quiet

\* read of a control: the write half of ask(get_command)
control_get(p) ==
    /\ "Agilent53132A" \in constructed
    /\ IF IsClosed("Agilent53132A")
       THEN ClosedCall(GetCall(p))
       ELSE /\ \E s \in PropertyScripts : Begin(GetCall(p), s)
            /\ Started
            /\ log' = <<Op("ask", Controls[p].get, "pending")>>
            /\ pc' = "get_r"
    /\ UNCHANGED <<constructed, life, func, dev, assigned>>
    /\ wire' = IF IsClosed("Agilent53132A") THEN wire ELSE Append(wire, "main")
    /\ Alone

\* read of a control: the response, parsed and reverse-mapped
control_get_read(p) ==
    /\ pc = "get_r"
    /\ call = GetCall(p)
    /\ Attempt
    /\ IF TimesOut
       THEN /\ Raise("TimeoutError")
            /\ log' = TimedOut(log)
       ELSE LET resp == IF Foreign THEN dev.amplitude
                        ELSE DeviceAnswer(dev, Controls[p].get)
                r == ControlGet(Controls[p], resp)
            IN  /\ log' = Answered(log, resp)
                /\ IF r.error # "none"
                   THEN Raise(r.error)
                   ELSE Return(r.num, r.str)
    /\ UNCHANGED <<constructed, life, call, x, func, dev, script, assigned>>
    /\ wire' = IF TimesOut THEN GivenUp(wire, "main") ELSE Taken(wire)
    /\ Alone

\* the device's amplitude unit is changed at the device itself
DevicePanel ==
    /\ pc = "idle"
    /\ "Agilent53132A" \in constructed
    /\ dev.amplitude_units # ForeignUnit
    /\ dev' = [dev EXCEPT !.amplitude_units = ForeignUnit]
    /\ assigned' = [assigned EXCEPT !.amplitude_units = ""]
    /\ UNCHANGED <<constructed, life, pc, call, x, log, func, script, reads, ret,
                   retNum, retStr>>
    /\ Quiet

(***************************************************************************)
(* SunEC1                                                                  *)
(***************************************************************************)
ModeInputs == { <<"HEAT">>, <<"COOL">>, <<"BOTH">>, <<"HEAT", "COOL">> }

\* the module imports logging, Instrument and strict_discrete_set and
\* defines log and SunEC1: the name split is bound nowhere
split_is_defined == FALSE

RECURSIVE mode_writes(_)
mode_writes(words) ==
    IF words = <<>> THEN <<>>
    ELSE (IF Head(words) = "HEAT" THEN <<"HON">>
          ELSE IF Head(words) = "COOL" THEN <<"CON">>
          ELSE <<>>) \o mode_writes(Tail(words))

SunEC1_init ==
    /\ "SunEC1" \notin constructed
    /\ Begin("SunEC1.__init__", NoScript)
    /\ constructed' = constructed \cup {"SunEC1"}
    /\ life' = [life EXCEPT !["SunEC1"] = "Connected"]
    /\ log' = Writes(<<"ON">>)
    /\ Return(Invalid, "")
    /\ UNCHANGED <<func, dev, assigned>>
    /\ Quiet

\* for i in split(m): evaluating split raises NameError before any write
SunEC1_mode(m, rate) ==
    /\ "SunEC1" \in constructed
    /\ Begin("SunEC1.mode", NoScript)
    /\ IF ~split_is_defined
       THEN Raise("NameError") /\ log' = <<>>
       ELSE /\ log' = Writes(mode_writes(m) \o <<"RATE=" \o Join(FormatD(rate))>>)
            /\ Return(Invalid, "")
    /\ UNCHANGED <<constructed, life, func, dev, assigned>>
    /\ Quiet

(***************************************************************************)
(* Specification.                                                          *)
(***************************************************************************)
Next ==
    \/ FlukePM6666_init
    \/ FlukePM6666_reset
    \/ \E cmd \in FunctionInputs : FlukePM6666_function(cmd)
    \/ FlukePM6666_measure
    \/ FlukePM6666_measure_opc
    \/ FlukePM6666_measure_opc_read
    \/ FlukePM6666_measure_read
    \/ FlukePM6666_measure_fetch
    \/ FlukePM6666_measure_return
    \/ Agilent53132A_init
    \/ Agilent53132A_reset
    \/ \E ch \in Channels, g \in GateTimes : Agilent53132A_frequency(ch, g)
    \/ Agilent53132A_frequency_opc
    \/ Agilent53132A_frequency_opc_read
    \/ Agilent53132A_frequency_read
    \/ Agilent53132A_frequency_fetch
    \/ Agilent53132A_frequency_return
    \/ \E p \in DOMAIN Controls : \E v \in Inputs(p) : control_set(p, v)
    \/ \E p \in DOMAIN Controls : control_get(p)
    \/ \E p \in DOMAIN Controls : control_get_read(p)
    \/ DevicePanel
    \/ SunEC1_init
    \/ \E m \in ModeInputs : SunEC1_mode(m, TEMP_RATE_INIT)

Spec == Init /\ [][Next]_vars

(***************************************************************************)
(* Properties of the completion-polling calls.                             *)
(***************************************************************************)
MeasureCalls == {"FlukePM6666.measure", "Agilent53132A.frequency"}

InMeasure == call \in MeasureCalls /\ pc # "idle"

MeasureReturned == call \in MeasureCalls /\ pc = "idle" /\ ret = "returned"

\* the operations of the call from its trigger write onward
TriggerIndex == CHOOSE i \in 1..Len(log) : log[i].text = "INIT"

PollLog == SubSeq(log, TriggerIndex, Len(log))

FetchCommand ==
    IF call = "FlukePM6666.measure"
    THEN measure_fetch_command(func)
    ELSE frequency_fetch_command

IsEmptyAnswer(op) == op.status = "answered" /\ op.resp = <<>>

IsFullAnswer(op) == op.status = "answered" /\ op.resp # <<>>

EmptyAnswers(l) == Cardinality({i \in 1..Len(l) : IsEmptyAnswer(l[i])})

\* C1 as stated: a polling call against a device that answers the empty
\* string n times and then "1" returns after exactly n + 2 transport
\* operations counted from the trigger (2 when "1" comes at once).
C1_TwoPlusEmpties ==
    MeasureReturned => Len(PollLog) = script.empties + 2

\* C1 amended: such a call returns the float of the fetch response after
\* exactly n + 3 transport operations from the trigger on: the trigger
\* write, the operation-complete ask, n plain reads and the fetch ask;
\* 3 operations when the device answers "1" at once.
C1_ThreePlusEmpties ==
    MeasureReturned =>
        /\ Len(PollLog) = script.empties + 3
        /\ EmptyAnswers(PollLog) = script.empties
        /\ Cardinality({i \in 1..Len(PollLog) : PollLog[i].kind = "read"})
               = script.empties
        /\ retNum = ParseFloat(log[Len(log)].resp)
        /\ IsNumber(retNum)
        /\ (script.empties = 0 => Len(PollLog) = 3)

C1_Witness ==
    /\ MeasureReturned
    /\ call = "FlukePM6666.measure"
    /\ script.empties = MaxEmpty
    /\ Len(log) = MaxEmpty + 3

\* C5: from the trigger on, a polling call's log is the trigger write, then
\* the operation-complete ask, then plain reads each following an empty
\* answer, then the fetch ask, which follows a non-empty answer, comes
\* last and is there when the call has returned.
C5_PollingOrder ==
    call \in MeasureCalls =>
        LET l == PollLog
        IN  /\ l[1] = Op("write", "INIT", "sent")
            /\ \A i \in 2..Len(l) :
                 \/ /\ i = 2
                    /\ l[i].kind = "ask"
                    /\ l[i].text = "*OPC?"
                 \/ /\ i > 2
                    /\ l[i].kind = "read"
                    /\ IsEmptyAnswer(l[i - 1])
                 \/ /\ i > 2
                    /\ i = Len(l)
                    /\ l[i].kind = "ask"
                    /\ l[i].text = FetchCommand
                    /\ IsFullAnswer(l[i - 1])
            /\ ret = "returned" =>
                 /\ l[Len(l)].text = FetchCommand
                 /\ Cardinality({i \in 1..Len(l) : l[i].kind = "ask"}) = 2
                 /\ Cardinality({i \in 1..Len(l) : l[i].kind = "write"}) = 1

C5_Witness ==
    /\ MeasureReturned
    /\ call = "Agilent53132A.frequency"
    /\ script.empties = MaxEmpty
    /\ Len(PollLog) = MaxEmpty + 3
    /\ PollLog[Len(PollLog) - 1].kind = "read"

\* C6: in a polling call a transport operation that timed out is the last
\* operation of the call and the call has ended with TimeoutError at that
\* very read; the call ends with TimeoutError in no other way, and after
\* a timeout of the operation-complete wait no fetch command was written.
C6_TimeoutPropagates ==
    call \in MeasureCalls =>
        /\ \A i \in 1..Len(log) :
             log[i].status = "timeout" =>
                 /\ i = Len(log)
                 /\ pc = "idle"
                 /\ ret = "TimeoutError"
                 /\ reads = script.timeoutAt
                 /\ log[i].text # FetchCommand =>
                        \A j \in 1..Len(log) : log[j].text # FetchCommand
        /\ ret = "TimeoutError" =>
             /\ log[Len(log)].status = "timeout"
             /\ log[Len(log)].kind \in {"ask", "read"}

C6_Witness ==
    /\ call \in MeasureCalls
    /\ ret = "TimeoutError"
    /\ log[Len(log)].kind = "read"
    /\ Len(log) > 3

(***************************************************************************)
(* Properties of the controls.                                             *)
(***************************************************************************)
\* the error class of a rejected value: the validators' ValueError
ValidationErrors == {"ValueError"}

\* the values a control declares as legal: amplitude_units declares the
\* keys of AMPLITUDE_UNITS, amplitude and offset declare no domain
Declared(p, v) == p = "amplitude_units" => v \in DOMAIN AMPLITUDE_UNITS

Five == Dec(FALSE, <<5>>, 0)

Twelve == Dec(FALSE, <<1, 2>>, 1)

\* C2: an assignment of a value outside the control's declared domain
\* fails with the validation error, writes nothing to the transport and
\* leaves the device, the drivers' state and the assigned values as they
\* were.
C2_RejectedBeforeIO ==
    [][\A p \in DOMAIN Controls : \A v \in Inputs(p) :
          (control_set(p, v) /\ ~Declared(p, v)) =>
              /\ ret' \in ValidationErrors
              /\ log' = <<>>
              /\ UNCHANGED <<dev, func, assigned, constructed>>]_vars

C2_Witness ==
    /\ call = SetCall("amplitude_units")
    /\ pc = "idle"
    /\ ret \in ValidationErrors
    /\ log = <<>>
    /\ assigned.amplitude_units = "dBm"

\* C3 as stated: mode('HEAT') issues the transport write "HON", and
\* mode('BOTH') raises the validation error and issues no write.
C3_ModeWrites ==
    [][/\ SunEC1_mode(<<"HEAT">>, TEMP_RATE_INIT) =>
             \E i \in 1..Len(log') : log'[i] = Op("write", "HON", "sent")
       /\ SunEC1_mode(<<"BOTH">>, TEMP_RATE_INIT) =>
             (ret' \in ValidationErrors /\ log' = <<>>)]_vars

\* C4 as stated: assigning 12 to amplitude raises the validation error and
\* sends nothing; assigning 5 sends "SOUR:VOLT 5" as a single write.
C4_RangeZeroToTen ==
    [][/\ control_set("amplitude", Twelve) =>
             (ret' \in ValidationErrors /\ log' = <<>>)
       /\ control_set("amplitude", Five) =>
             log' = <<Op("write", "SOUR:VOLT 5", "sent")>>]_vars

\* C4 amended: amplitude declares no range: assigning 12 sends
\* "SOUR:VOLT 12" and assigning 5 sends "SOUR:VOLT 5", each as the single
\* transport write of the assignment, and neither raises.
C4_NoRange ==
    (call = SetCall("amplitude") /\ pc = "idle") =>
        /\ ret = "returned"
        /\ assigned.amplitude = Twelve =>
               log = <<Op("write", "SOUR:VOLT 12", "sent")>>
        /\ assigned.amplitude = Five =>
               log = <<Op("write", "SOUR:VOLT 5", "sent")>>

C4_Witness ==
    /\ call = SetCall("amplitude")
    /\ pc = "idle"
    /\ ret = "returned"
    /\ assigned.amplitude = Twelve
    /\ dev.amplitude = <<"1", "2">>

Range(m) == {m[k] : k \in DOMAIN m}

UnitsAssigned == assigned.amplitude_units # ""

\* C8: assigning a key of AMPLITUDE_UNITS to amplitude_units writes the
\* set command with the key's wire token ('Vpp' sends "SOUR:VOLT:UNIT
\* VPP"); reading the control while the device holds that token returns
\* the key; a response that is no wire token of the mapping raises
\* KeyError.
C8_MappedBothWays ==
    /\ (call = SetCall("amplitude_units") /\ ret = "returned"
            /\ UnitsAssigned) =>
          /\ assigned.amplitude_units \in DOMAIN AMPLITUDE_UNITS
          /\ log = <<Op("write",
                        "SOUR:VOLT:UNIT "
                            \o AMPLITUDE_UNITS[assigned.amplitude_units],
                        "sent")>>
          /\ assigned.amplitude_units = "Vpp" =>
                 log[1].text = "SOUR:VOLT:UNIT VPP"
    /\ (call = GetCall("amplitude_units") /\ ret = "returned") =>
          /\ retStr \in DOMAIN AMPLITUDE_UNITS
          /\ log[1].resp = <<AMPLITUDE_UNITS[retStr]>>
          /\ UnitsAssigned => retStr = assigned.amplitude_units
    /\ (call = GetCall("amplitude_units") /\ pc = "idle"
            /\ log[1].status = "answered") =>
          (Join(log[1].resp) \notin Range(AMPLITUDE_UNITS)
               <=> ret = "KeyError")

C8_Witness ==
    /\ call = GetCall("amplitude_units")
    /\ ret = "returned"
    /\ assigned.amplitude_units = "dBm"
    /\ retStr = "dBm"
    /\ log[1].resp = <<"DBM">>

\* C9: in AMPLITUDE_UNITS and in FUNCTIONS no two keys have the same wire
\* token: the reverse lookup of a key's token is the key.
C9_Bijection ==
    /\ \A k \in DOMAIN AMPLITUDE_UNITS :
          ReverseLookup(AMPLITUDE_UNITS, AMPLITUDE_UNITS[k]) = k
    /\ \A k \in DOMAIN FUNCTIONS :
          ReverseLookup(FUNCTIONS, FUNCTIONS[k]) = k
    /\ \A j, k \in DOMAIN FUNCTIONS :
          FUNCTIONS[j] = FUNCTIONS[k] => j = k
    /\ \A j, k \in DOMAIN AMPLITUDE_UNITS :
          AMPLITUDE_UNITS[j] = AMPLITUDE_UNITS[k] => j = k
    /\ (call = GetCall("amplitude_units") /\ ret = "returned"
            /\ UnitsAssigned) =>
          retStr = ReverseLookup(AMPLITUDE_UNITS,
                                 AMPLITUDE_UNITS[assigned.amplitude_units])

C9_Witness ==
    /\ call = GetCall("amplitude_units")
    /\ ret = "returned"
    /\ func \in DOMAIN FUNCTIONS
    /\ assigned.amplitude_units = "Vpp"
    /\ retStr = "Vpp"

NumericControls == {"amplitude", "offset"}

\* C10: a value assigned to amplitude or offset and read back from a
\* device that echoes the text written comes back rounded to the six
\* significant digits of %g, hence unchanged when it has no more than
\* six; the assignment is one transport write, the read one ask, and the
\* read returns what the device answered.
C10_RoundTrip ==
    \A p \in NumericControls :
        /\ (call = SetCall(p) /\ ret = "returned") =>
              /\ Len(log) = 1
              /\ log[1].kind = "write"
              /\ log[1].text = DevSet[p] \o Join(dev[p])
              /\ ParseFloat(dev[p]) = RoundSig(assigned[p], GPrecision)
        /\ (call = GetCall(p) /\ pc = "idle") =>
              /\ Len(log) = 1
              /\ log[1].kind = "ask"
              /\ log[1].text = DevGet[p]
        /\ (call = GetCall(p) /\ ret = "returned") =>
              /\ log[1].resp = dev[p]
              /\ retNum = ParseFloat(log[1].resp)
              /\ IsNumber(assigned[p]) =>
                    /\ retNum = RoundSig(assigned[p], GPrecision)
                    /\ Len(assigned[p].dig) <= GPrecision =>
                           retNum = assigned[p]

C10_Witness ==
    /\ call = GetCall("amplitude")
    /\ ret = "returned"
    /\ assigned.amplitude = Dec(FALSE, <<1, 2, 3, 4, 5, 6, 7>>, 6)
    /\ retNum = Dec(FALSE, <<1, 2, 3, 4, 5, 7>>, 6)
    /\ log[1].resp = <<"1", ".", "2", "3", "4", "5", "7", "e", "+", "0", "6">>

(***************************************************************************)
(* Progress of the polling calls: the caller is one thread that runs the   *)
(* call it is in, so a step of the call in progress is eventually taken.   *)
(* PollSpec is the program whose caller constructs the two counters and   *)
(* makes polling calls only.                                               *)
(***************************************************************************)
PollStep ==
    \/ FlukePM6666_measure_opc
    \/ FlukePM6666_measure_opc_read
    \/ FlukePM6666_measure_read
    \/ FlukePM6666_measure_fetch
    \/ FlukePM6666_measure_return
    \/ Agilent53132A_frequency_opc
    \/ Agilent53132A_frequency_opc_read
    \/ Agilent53132A_frequency_read
    \/ Agilent53132A_frequency_fetch
    \/ Agilent53132A_frequency_return

PollNext ==
    \/ FlukePM6666_init
    \/ FlukePM6666_measure
    \/ Agilent53132A_init
    \/ \E ch \in Channels, g \in GateTimes : Agilent53132A_frequency(ch, g)
    \/ PollStep

PollSpec == Init /\ [][PollNext]_vars /\ WF_vars(PollStep)

\* the device of the call never answers the operation-complete query with
\* anything but the empty string, and no read of the call times out
SilentForever == script.silent /\ script.timeoutAt = 0

\* C7: a polling call whose device eventually answers non-empty, or whose
\* transport eventually times out, ends; a call ends only with a
\* non-empty answer in x or with TimeoutError; and while the device stays
\* silent on a transport without timeout the call never ends, however
\* many reads it has made.
C7_NoIterationBound ==
    /\ [](InMeasure /\ ~SilentForever => <>(pc = "idle"))
    /\ [][InMeasure /\ pc' = "idle" => (ret' = "TimeoutError" \/ x' = "1")]_vars
    /\ [][InMeasure /\ SilentForever => pc' # "idle"]_vars

C7_Witness ==
    /\ InMeasure
    /\ SilentForever
    /\ reads = MaxLog
    /\ Len(log) = MaxLog
    /\ x = ""

(***************************************************************************)
(* Lifecycle.  LifeSpec is the program whose caller also tears the two     *)
(* counters down.                                                          *)
(***************************************************************************)
LifeInstruments == {"FlukePM6666", "Agilent53132A"}

\* the assignments the caller of LifeSpec makes to the controls
LifeAssignments ==
    { <<"amplitude", Five>>, <<"amplitude_units", "Vpp">>,
      <<"amplitude_units", "BOTH">> }

LifeReads == {"amplitude", "amplitude_units"}

LifeFunctions == { <<"PER">>, <<"VOLT">> }

LifeGates == { << <<"T", "I", "M", "E">>, <<"0", ".", "1">> >> }

LifeInputs == { << <<"I", "M", "P">>, <<"5", "0">> >>, << <<"I", "M", "P">> >> }

LifeNext ==
    \/ FlukePM6666_init
    \/ FlukePM6666_reset
    \/ \E cmd \in LifeFunctions : FlukePM6666_function(cmd)
    \/ \E cmd \in LifeGates : FlukePM6666_gate(cmd)
    \/ \E cmd \in LifeInputs : FlukePM6666_input(cmd, 1)
    \/ FlukePM6666_measure
    \/ Agilent53132A_init
    \/ Agilent53132A_reset
    \/ \E ch \in Channels, g \in GateTimes : Agilent53132A_frequency(ch, g)
    \/ \E a \in LifeAssignments : control_set(a[1], a[2])
    \/ \E p \in LifeReads : control_get(p)
    \/ \E p \in LifeReads : control_get_read(p)
    \/ PollStep
    \/ \E i \in LifeInstruments : Instrument_close(i)

LifeSpec == Init /\ [][LifeNext]_vars

\* the transitions of the chain Uninitialized -> Connected ->
\* (Configured <-> Measuring) -> Closed; a constructor that runs reset()
\* takes the first two in one call
ChainSteps ==
    { <<"Uninitialized", "Connected">>, <<"Uninitialized", "Configured">>,
      <<"Connected", "Configured">>, <<"Configured", "Measuring">>,
      <<"Measuring", "Configured">>, <<"Configured", "Closed">> }

\* the transitions of an instrument that was never reset
UnconfiguredSteps ==
    { <<"Connected", "Measuring">>, <<"Measuring", "Connected">>,
      <<"Connected", "Closed">> }

\* the operations of a closed instrument that reach the transport: a
\* polling call, a reset, the read of a control and the assignment of a
\* declared value end with InstrumentClosedError and an empty log
ClosedOperationsFail ==
    /\ (IsClosed("FlukePM6666")
          /\ (FlukePM6666_measure \/ FlukePM6666_reset)) =>
            (ret' = "InstrumentClosedError" /\ log' = <<>> /\ pc' = "idle")
    /\ (IsClosed("Agilent53132A")
          /\ \/ Agilent53132A_reset
             \/ \E ch \in Channels, g \in GateTimes :
                    Agilent53132A_frequency(ch, g)
             \/ \E p \in LifeReads : control_get(p)
             \/ \E a \in LifeAssignments :
                    control_set(a[1], a[2]) /\ Declared(a[1], a[2])) =>
            (ret' = "InstrumentClosedError" /\ log' = <<>> /\ pc' = "idle")

driverVars == <<constructed, pc, call, x, log, func, dev, script, reads, ret,
                retNum, retStr, assigned, life>>

\* the write half of the second caller's ask(amplitude.get)
other_get ==
    /\ other = "idle"
    /\ IsOpen("Agilent53132A")
    /\ serialized => pc = "idle"
    /\ other' = "asked"
    /\ wire' = Append(wire, "other")
    /\ UNCHANGED <<driverVars, serialized, iv>>

\* the read half: the response the device sent first
other_get_read ==
    /\ other = "asked"
    /\ other' = "idle"
    /\ wire' = Taken(wire)
    /\ UNCHANGED <<driverVars, serialized, iv>>

\* callers that take turns: the first begins a call only when the second
\* is in none
Turn == (serialized /\ pc = "idle") => other = "idle"

RaceInit == DriverInit /\ serialized \in BOOLEAN

RaceNext ==
    \/ Turn /\ Agilent53132A_init
    \/ Turn /\ \E ch \in Channels, g \in GateTimes :
                   Agilent53132A_frequency(ch, g)
    \/ Turn /\ Agilent53132A_frequency_opc
    \/ Turn /\ Agilent53132A_frequency_opc_read
    \/ Turn /\ Agilent53132A_frequency_read
    \/ Turn /\ Agilent53132A_frequency_fetch
    \/ Turn /\ Agilent53132A_frequency_return
    \/ Turn /\ control_get("amplitude")
    \/ Turn /\ control_get_read("amplitude")
    \/ other_get
    \/ other_get_read

RaceSpec == RaceInit /\ [][RaceNext]_vars

\* the first caller has written an ask and not read its response
MainMidAsk == log # <<>> /\ log[Len(log)].status = "pending"

\* a step of the first caller that is a transport operation
MainOp == driverVars' # driverVars /\ (pc # "idle" \/ log' # <<>>)

\* a transport operation of one caller between the halves of the other's
\* ask
Interleaved ==
    \/ MainMidAsk /\ other' # other
    \/ other = "asked" /\ MainOp

\* a caller reads the response to the other caller's query
Crossed ==
    /\ wire # <<>>
    /\ wire' = Tail(wire)
    /\ \/ other = "asked" /\ other' = "idle" /\ Head(wire) = "main"
       \/ driverVars' # driverVars /\ Head(wire) = "other"

FlukeFunctions == FunctionInputs \cup { <<"FREQ">>, <<"TOT", "GATED">> }

FlukeNext ==
    \/ FlukePM6666_init
    \/ FlukePM6666_reset
    \/ \E cmd \in FlukeFunctions : FlukePM6666_function(cmd)
    \/ \E cmd \in GateInputs : FlukePM6666_gate(cmd)
    \/ \E cmd \in InputInputs, n \in InputNumbers : FlukePM6666_input(cmd, n)
    \/ FlukePM6666_measure
    \/ FlukePM6666_measure_opc
    \/ FlukePM6666_measure_opc_read
    \/ FlukePM6666_measure_read
    \/ FlukePM6666_measure_fetch
    \/ FlukePM6666_measure_return

FlukeSpec == Init /\ [][FlukeNext]_vars

\* function() accepts an argument whose first word is a key of FUNCTIONS
Accepted(cmd) == cmd # <<>> /\ cmd[1] \in DOMAIN FUNCTIONS

FunctionStep == \E cmd \in FlukeFunctions : FlukePM6666_function(cmd)

\* C13: the fetch of FlukePM6666.measure() is 'FETC:<f>?' with <f> the
\* function most recently accepted by function() since the last reset(),
\* 'FREQ' if none: the constructor and reset() select 'FREQ', an accepted
\* function() selects its first word, no other step (a function() not
\* accepted, gate(), input(), the steps of measure()) changes the
\* selection, and the fetch names the selection; the selection of a
\* constructed counter is always a key of FUNCTIONS.
C13_FetchSelected ==
    [][/\ (FlukePM6666_init \/ FlukePM6666_reset) => func' = "FREQ"
       /\ \A cmd \in FlukeFunctions :
              FlukePM6666_function(cmd) =>
                  func' = IF Accepted(cmd) THEN cmd[1] ELSE func
       /\ ~(FlukePM6666_init \/ FlukePM6666_reset \/ FunctionStep) =>
              func' = func
       /\ FlukePM6666_measure_fetch =>
              /\ log'[Len(log')].kind = "ask"
              /\ log'[Len(log')].status = "pending"
              /\ log'[Len(log')].text = "FETC:" \o func \o "?"
       /\ "FlukePM6666" \in constructed' => func' \in DOMAIN FUNCTIONS]_vars

\* measure() has fetched with a function selected by function()
C13_Witness ==
    /\ call = "FlukePM6666.measure"
    /\ pc = "fetch_r"
    /\ func = "TINT"
    /\ log[Len(log)].text = "FETC:TINT?"

GATE_KEYWORDS == {"TIME", "DIGITS"}

INPUT_KEYWORDS == {"ATT", "COUP", "IMP"}

\* the call returned, wrote nothing and left the selection alone
Ignored == ret' = "returned" /\ pc' = "idle" /\ log' = <<>> /\ func' = func

\* every operation of the call is a write of one of the texts
OnlyWrites(texts) ==
    \A k \in 1..Len(log') :
        log'[k].kind = "write" /\ log'[k].status = "sent"
            /\ log'[k].text \in texts

Arguments(inputs) == {cmd[2] : cmd \in {c \in inputs : Len(c) >= 2}}

GateTexts(prefix) ==
    {gate_arm_writes[1], gate_arm_writes[2]}
        \cup {prefix \o Join(FormatF(ParseFloat(a))) :
                a \in {b \in Arguments(GateInputs) : IsNumber(ParseFloat(b))}}

InputTexts(n, key) ==
    LET inp == ":INP" \o Join(FormatD(n)) \o ":" \o key \o "  "
    IN  CASE key = "ATT" ->
               {inp \o Join(FormatD(ParseInt(a))) :
                   a \in {b \in Arguments(InputInputs) : IsInt(b)}}
          [] key = "COUP" -> {inp \o Join(a) : a \in Arguments(InputInputs)}
          [] OTHER ->
               {inp \o Join(FormatF(ParseFloat(a))) :
                   a \in {b \in Arguments(InputInputs) : IsNumber(ParseFloat(b))}}

\* C14: a function(), gate() or input() call whose first keyword is not
\* recognised writes nothing, leaves the selected function unchanged and
\* returns without an error; a call with a recognised keyword performs
\* only writes of the branch of that keyword.
C14_UnrecognisedIgnored ==
    [][/\ \A cmd \in FlukeFunctions :
              FlukePM6666_function(cmd) /\ cmd # <<>> =>
                  IF cmd[1] \in DOMAIN FUNCTIONS
                  THEN OnlyWrites({"FUNC '" \o CmdText(cmd) \o "'"})
                  ELSE Ignored
       /\ \A cmd \in GateInputs :
              FlukePM6666_gate(cmd) /\ cmd # <<>> =>
                  IF Join(cmd[1]) \in GATE_KEYWORDS
                  THEN OnlyWrites(GateTexts(
                           IF Join(cmd[1]) = "TIME"
                           THEN ":FREQ:ARM:STOP:TIM  "
                           ELSE ":FREQ:ARM:STOP:DIG  "))
                  ELSE Ignored
       /\ \A cmd \in InputInputs, n \in InputNumbers :
              FlukePM6666_input(cmd, n) /\ cmd # <<>> =>
                  IF Join(cmd[1]) \in INPUT_KEYWORDS
                  THEN OnlyWrites(InputTexts(n, Join(cmd[1])))
                  ELSE Ignored]_vars

\* gate() was called with an unrecognised keyword after function() had
\* selected a function
C14_Witness ==
    /\ call = "FlukePM6666.gate"
    /\ pc = "idle"
    /\ ret = "returned"
    /\ log = <<>>
    /\ func = "PER"

(***************************************************************************)
(* Initialisation writes.                                                  *)
(***************************************************************************)
\* the calls of the model that run on an instance of the class
MethodCalls ==
    [FlukePM6666   |-> {"FlukePM6666.__init__", "FlukePM6666.reset",
                        "FlukePM6666.function", "FlukePM6666.gate",
                        "FlukePM6666.input", "FlukePM6666.measure"},
     Agilent53132A |-> {"Agilent53132A.__init__", "Agilent53132A.reset",
                        "Agilent53132A.frequency"}
                           \cup {SetCall(p) : p \in DOMAIN Controls}
                           \cup {GetCall(p) : p \in DOMAIN Controls},
     SunEC1        |-> {"SunEC1.__init__", "SunEC1.mode"}]

SentWrite(text) ==
    [kind |-> "write", text |-> text, status |-> "sent", resp |-> <<>>]

\* C15: the initialisation writes precede every other command: no method
\* runs on an instance before its constructor, the constructor of
\* FlukePM6666 opens with the writes "D" then "EOI ON", that of SunEC1
\* with the write "ON", and Agilent53132A.reset() issues exactly the
\* writes "*RST", "*CLS", "*SRE 0", "*ESE 0", ":STAT:PRES" in that order
\* and no read.
C15_InitWrites ==
    /\ \A i \in Instruments : i \notin constructed => call \notin MethodCalls[i]
    /\ call = "FlukePM6666.__init__" =>
           /\ Len(log) >= 2
           /\ log[1] = SentWrite("D")
           /\ log[2] = SentWrite("EOI ON")
    /\ call = "SunEC1.__init__" =>
           /\ Len(log) >= 1
           /\ log[1] = SentWrite("ON")
    /\ (call = "Agilent53132A.reset" /\ ret = "returned") =>
           log = <<SentWrite("*RST"), SentWrite("*CLS"), SentWrite("*SRE 0"),
                   SentWrite("*ESE 0"), SentWrite(":STAT:PRES")>>

\* the three instruments are constructed and reset() of Agilent53132A has
\* returned
C15_Witness ==
    /\ constructed = Instruments
    /\ call = "Agilent53132A.reset"
    /\ ret = "returned"
    /\ Len(log) = 5

(***************************************************************************)
(* IVProcedure.execute().  IVSpec is the program that runs one sweep while *)
(* a stop may be requested from outside.  Currents are whole mA.  out is   *)
(* the sequence of the instrument operations and emissions of the sweep.   *)
(***************************************************************************)
\* max_current, min_current and current_step of the sweeps checked
IvParameters ==
    { [min |-> -1, max |-> 1, step |-> 1],
      [min |-> 0, max |-> 3, step |-> 2],
      [min |-> 1, max |-> 1, step |-> 1] }

\* the voltages the meter returns, in V
Voltages == {1, 2}

\* len(np.arange(start, stop, step)) for a step of either sign
arange_len(start, stop, step) ==
    LET span == IF step > 0 THEN stop - start ELSE start - stop
        by   == IF step > 0 THEN step ELSE -step
    IN  IF span <= 0 THEN 0 ELSE (span + by - 1) \div by

\* np.arange(start, stop, step)
arange(start, stop, step) ==
    [k \in 1..arange_len(start, stop, step) |-> start + (k - 1) * step]

\* currents *= 1e-3: mA to A, as a fraction
Amps(mA) == [num |-> mA, den |-> 1000]

\* the currents of the sweep, up then down
sweep_currents(min, max, step) ==
    LET currents_up   == arange(min, max, step)
        currents_down == arange(max, min, -step)
        currents      == currents_up \o currents_down
    IN  [k \in 1..Len(currents) |-> Amps(currents[k])]

NaN == [num |-> 0, den |-> 0]

\* voltage/current, or nan for a current of magnitude at most 1e-10
resistance(voltage, current) ==
    IF current.num = 0 THEN NaN
    ELSE [num |-> voltage * current.den, den |-> current.num]

\* the progress counting the step just done as well
progress_counting_done(i, steps) == [num |-> 100 * (i + 1), den |-> steps]

\* 100.*i/steps, as a fraction
progress(i, steps) == [num |-> 100 * i, den |-> steps]

\* raised: the operation ended in an exception
Event(kind, step, value) ==
    [kind |-> kind, step |-> step, value |-> value, raised |-> FALSE]

IvFrame == UNCHANGED <<driverVars, wire, other, serialized>>

IVProcedure_execute(p) ==
    /\ iv.pc = "idle"
    /\ LET currents == sweep_currents(p.min, p.max, p.step)
       IN  iv' = [iv EXCEPT !.currents = currents, !.steps = Len(currents),
                            !.i = 0,
                            !.pc = IF currents = <<>> THEN "done" ELSE "source"]
    /\ IvFrame

\* self.source.source_current = current
IVProcedure_source_current ==
    /\ iv.pc = "source"
    /\ iv' = [iv EXCEPT !.out = Append(@, Event("source_current", iv.i,
                                                 iv.currents[iv.i + 1])),
                        !.pc = "meter"]
    /\ IvFrame

\* voltage = self.meter.voltage; a read that raises ends execute()
IVProcedure_voltage ==
    /\ iv.pc = "meter"
    /\ \/ \E v \in Voltages :
              iv' = [iv EXCEPT !.voltage = v,
                               !.out = Append(@, Event("voltage", iv.i, v)),
                               !.pc = "results"]
       \/ iv' = [iv EXCEPT !.out = Append(@, [Event("voltage", iv.i, 0)
                                                 EXCEPT !.raised = TRUE]),
                           !.pc = "failed"]
    /\ IvFrame

\* self.emit('results', data)
IVProcedure_emit_results ==
    /\ iv.pc = "results"
    /\ LET current == iv.currents[iv.i + 1]
           data    == [current |-> current, voltage |-> iv.voltage,
                       resistance |-> resistance(iv.voltage, current)]
       IN  iv' = [iv EXCEPT !.out = Append(@, Event("results", iv.i, data)),
                            !.pc = "progress"]
    /\ IvFrame

\* self.emit('progress', 100.*i/steps)
IVProcedure_emit_progress ==
    /\ iv.pc = "progress"
    /\ iv' = [iv EXCEPT !.out = Append(@, Event("progress", iv.i,
                                                 progress(iv.i, iv.steps))),
                        !.pc = "check"]
    /\ IvFrame

\* if self.should_stop(): break; else the next current, if any
IVProcedure_should_stop ==
    /\ iv.pc = "check"
    /\ iv' = IF iv.stop
             THEN [iv EXCEPT !.pc = "stopped"]
             ELSE [iv EXCEPT !.i = @ + 1,
                             !.pc = IF iv.i + 1 < iv.steps THEN "source"
                                    ELSE "done"]
    /\ IvFrame

\* a stop requested from outside while the sweep runs
IVProcedure_stop ==
    /\ iv.pc \notin {"idle", "done", "stopped", "failed"}
    /\ ~iv.stop
    /\ iv' = [iv EXCEPT !.stop = TRUE]
    /\ IvFrame

IVNext ==
    \/ \E p \in IvParameters : IVProcedure_execute(p)
    \/ IVProcedure_source_current
    \/ IVProcedure_voltage
    \/ IVProcedure_emit_results
    \/ IVProcedure_emit_progress
    \/ IVProcedure_should_stop
    \/ IVProcedure_stop

IVSpec == Init /\ [][IVNext]_vars

StepKinds == <<"source_current", "voltage", "results", "progress">>

\* the k-th operation of the sweep is the operation of its place in its step
InOrder(o, k) ==
    /\ o[k].kind = StepKinds[((k - 1) % 4) + 1]
    /\ o[k].step = (k - 1) \div 4

Below100(f) == f.num < 100 * f.den

\* C16: every step of execute() performs in this order the source-current
\* write, the voltage read, the 'results' emission and the 'progress'
\* emission (a step whose read raises ends the sweep there); the stop
\* request is checked after each step, and once it is seen after step i
\* nothing is written, read or emitted for a later step; every progress
\* value emitted is below 100.
C16_StepOrder ==
    [][/\ iv'.out # iv.out =>
              /\ Len(iv'.out) = Len(iv.out) + 1
              /\ SubSeq(iv'.out, 1, Len(iv.out)) = iv.out
       /\ \A k \in 1..Len(iv'.out) :
              /\ InOrder(iv'.out, k)
              /\ iv'.out[k].kind = "progress" => Below100(iv'.out[k].value)
              /\ iv'.out[k].raised =>
                     k = Len(iv'.out) /\ iv'.pc = "failed"
       /\ (iv'.out # iv.out /\ Len(iv'.out) % 4 = 0) => iv'.pc = "check"
       /\ iv.pc = "check" =>
              \/ iv'.pc = "check" /\ iv'.out = iv.out
              \/ iv'.pc = IF iv.stop THEN "stopped"
                          ELSE IF 4 * iv.steps > Len(iv.out) THEN "source"
                          ELSE "done"
       /\ iv.pc \in {"stopped", "done", "failed"} => iv' = iv]_vars

\* the sweep was stopped after its second step with steps left
C16_Witness ==
    /\ iv.pc = "stopped"
    /\ Len(iv.out) = 8
    /\ iv.steps = 4
    /\ iv.out[8].value = progress(1, 4)

=============================================================================
